---- MODULE Spec2Model ----
(***************************************************************************)
(* A model of refitt_pipeline: the ANTARES/ZTF record normaliser           *)
(* (format_antares_lc, format_antares_meta), the threaded batch query      *)
(* (query_ztf_lightcurves), the nested-frame assembler (lcs_to_nested_df)  *)
(* and the time axis of plot_light_curve.                                  *)
(*                                                                         *)
(* Encoding.  A pandas table is a sequence of rows; a row carries its      *)
(* index label in the field "index".  A float NaN / missing value is the   *)
(* integer NaN; Python's None is the string None.  A value returned by a   *)
(* function that may raise is Return(v) or Raise(exception name).          *)
(***************************************************************************)
EXTENDS Integers, Sequences, FiniteSets, TLC

\* ------------------------------------------------------------- bounds
MaxBatch == 3
MaxWorkers == 2
MaxRows == 2
MaxLcLen == 2
MaxPlotRows == 4

\* ------------------------------------------------------------- values
NaN == -1000
None == "None"

Ids == {"ZTFa", "ZTFb"}

Return(v) == [ok |-> TRUE, exc |-> None, value |-> v]
Raise(e) == [ok |-> FALSE, exc |-> e, value |-> <<>>]

\* The six columns format_antares_lc selects from locus.lightcurve.
LcColumns == {"ant_mjd", "ant_survey", "ant_passband", "ant_mag", "ant_magerr", "ant_maglim"}

\* The ten properties format_antares_meta reads with properties.get(key, None).
MetaKeys ==
  {"ztf_object_id", "num_mag_values", "num_alerts", "brightest_alert_magnitude",
   "brightest_alert_observation_time", "newest_alert_magnitude",
   "newest_alert_observation_time", "oldest_alert_magnitude",
   "oldest_alert_observation_time", "survey"}

RECURSIVE Flatten(_)
\* pd.concat of a non-empty list of frames: the rows stacked in list order.
Flatten(frames) ==
  IF frames = <<>> THEN <<>> ELSE Head(frames) \o Flatten(Tail(frames))

\* ------------------------------------------------------------- normaliser
\* A fillna that leaves a missing value missing.
fillna_keep(v, other) == v

\* Series.fillna(other): a missing value takes the other series' value of the same row.
fillna(v, other) == IF v = NaN THEN other ELSE v

\* lc["non_detection"].replace([1, 2], [False, True]); other values pass through.
replace_non_detection(v) == IF v = 1 THEN FALSE ELSE IF v = 2 THEN TRUE ELSE v

\* The replacement lists with G paired with ztfr.
replace_band_swapped(b) ==
  IF b = "g" THEN "ztfg"
  ELSE IF b = "R" THEN "ztfr"
  ELSE IF b = "r" THEN "ztfr"
  ELSE IF b = "G" THEN "ztfr"
  ELSE IF b = "i" THEN "ztfi"
  ELSE IF b = "I" THEN "ztfi"
  ELSE b

\* lc["band"].replace(["g","R","r","G","i","I"], ["ztfg","ztfr","ztfr","ztfg","ztfi","ztfi"]).
replace_band(b) ==
  IF b = "g" THEN "ztfg"
  ELSE IF b = "R" THEN "ztfr"
  ELSE IF b = "r" THEN "ztfr"
  ELSE IF b = "G" THEN "ztfg"
  ELSE IF b = "i" THEN "ztfi"
  ELSE IF b = "I" THEN "ztfi"
  ELSE b

\* One output row of format_antares_lc: fillna, drop ant_maglim, rename, replace, index.
lc_row(r, id) ==
  [index |-> id,
   mjd |-> r.ant_mjd,
   non_detection |-> replace_non_detection(r.ant_survey),
   band |-> replace_band(r.ant_passband),
   magnitude |-> fillna(r.ant_mag, r.ant_maglim),
   magnitude_error |-> r.ant_magerr]

\* Rows labelled with the survey property instead of the identifier.
lc_index_survey(locus) == locus.properties["survey"]

\* The label format_antares_lc puts on every row.
lc_index(locus) == locus.properties["ztf_object_id"]

format_antares_lc(locus) ==
  IF ~ locus.found THEN Raise("AttributeError")
  ELSE IF ~ (LcColumns \subseteq locus.lightcurve.columns) THEN Raise("KeyError")
  ELSE IF "ztf_object_id" \notin DOMAIN locus.properties THEN Raise("KeyError")
  ELSE Return([i \in 1..Len(locus.lightcurve.rows) |->
                 lc_row(locus.lightcurve.rows[i], lc_index(locus))])

\* The label format_antares_meta puts on its row.
meta_index(locus) == locus.properties["ztf_object_id"]

\* locus.properties.get(key, None)
properties_get(properties, key) ==
  IF key \in DOMAIN properties THEN properties[key] ELSE None

format_antares_meta(locus) ==
  IF ~ locus.found THEN Raise("AttributeError")
  ELSE IF "ztf_object_id" \notin DOMAIN locus.properties THEN Raise("KeyError")
  ELSE Return(<<[index |-> meta_index(locus),
                 cols |-> [k \in MetaKeys |-> properties_get(locus.properties, k)],
                 ra |-> locus.ra,
                 dec |-> locus.dec]>>)

\* query_ztf_lightcurve after the lookup returned: both tables, or the first exception.
query_ztf_lightcurve(locus) ==
  LET lc == format_antares_lc(locus)
      meta == format_antares_meta(locus)
  IN IF ~ lc.ok THEN lc
     ELSE IF ~ meta.ok THEN meta
     ELSE Return([lightcurve |-> lc.value, meta |-> meta.value])

\* ------------------------------------------------------------- assembler
\* The identifiers in index sort order (pack sorts the flat frame by its index).
IdOrder == <<"ZTFa", "ZTFb">>

\* A lightcurve row as it sits in a nested sub-table: the index label is the grouping key.
nested_row(r) ==
  [mjd |-> r.mjd, non_detection |-> r.non_detection, band |-> r.band,
   magnitude |-> r.magnitude, magnitude_error |-> r.magnitude_error]

\* nested_pandas pack: a stable sort of the flat frame by index, one packed entry per
\* distinct index label holding that label's rows in frame order.
pack(flat) ==
  LET present == SelectSeq(IdOrder, LAMBDA id : \E i \in DOMAIN flat : flat[i].index = id)
      rowsOf(id) == SelectSeq(flat, LAMBDA r : r.index = id)
  IN [k \in DOMAIN present |->
        [index |-> present[k],
         lightcurve |-> [j \in DOMAIN rowsOf(present[k]) |-> nested_row(rowsOf(present[k])[j])]]]

\* The packed sub-table a left join on the index finds for a label; <<>> stands for the
\* missing value the join leaves where the packed frame has no such label.
join_lookup(packed, id) ==
  IF \E k \in DOMAIN packed : packed[k].index = id
  THEN packed[CHOOSE k \in DOMAIN packed : packed[k].index = id].lightcurve
  ELSE <<>>

\* A join by row position instead of by index label.
add_nested_by_position(meta, flat) ==
  LET packed == pack(flat)
  IN [k \in DOMAIN meta |->
        [index |-> meta[k].index, cols |-> meta[k].cols, ra |-> meta[k].ra,
         dec |-> meta[k].dec,
         lightcurve |-> IF k \in DOMAIN packed THEN packed[k].lightcurve ELSE <<>>]]

\* NestedFrame.add_nested(lightcurves, "lightcurve"): pack, then a left join on the index.
add_nested(meta, flat) ==
  LET packed == pack(flat)
  IN [k \in DOMAIN meta |->
        [index |-> meta[k].index, cols |-> meta[k].cols, ra |-> meta[k].ra,
         dec |-> meta[k].dec,
         lightcurve |-> join_lookup(packed, meta[k].index)]]

lcs_to_nested_df(lightcurves, meta) == add_nested(meta, lightcurves)

\* DataFrame.reset_index(drop=True): the index labels are dropped, rows keep their order
\* and are numbered by position.
reset_index_drop(df) ==
  [k \in DOMAIN df |->
     [cols |-> df[k].cols, ra |-> df[k].ra, dec |-> df[k].dec,
      lightcurve |-> df[k].lightcurve]]

\* A concat that gives an empty frame for an empty list.
pd_concat_lenient(frames) == Return(Flatten(frames))

\* pd.concat(list): ValueError("No objects to concatenate") on an empty list.
pd_concat(frames) ==
  IF frames = <<>> THEN Raise("ValueError") ELSE Return(Flatten(frames))

\* ------------------------------------------------------------- batch query
\* State of one query_ztf_lightcurves call.
VARIABLES ztf_object_ids, save_path, save_by_layer, max_workers, remote,
          pc, submitted, fut, lightcurves, metas, nested_df, parquet, exc
\* State of one normalisation of a record: the record and the two tables made from it.
VARIABLES locus, lc_out, meta_out, formatted
\* State of one plot_light_curve call: the caller's frame (changed in place), a copy of
\* it as passed, the arguments, what was drawn, the file saved and the value returned.
VARIABLES lightcurve, original, time_axis, ztf_id, plot_save_path, drawn, png, ret

qvars == <<ztf_object_ids, save_path, save_by_layer, max_workers, remote,
           pc, submitted, fut, lightcurves, metas, nested_df, parquet, exc>>
fvars == <<locus, lc_out, meta_out, formatted>>
pvars == <<lightcurve, original, time_axis, ztf_id, plot_save_path, drawn, png, ret>>
vars == <<qvars, fvars, pvars>>

\* What the ANTARES service holds for an identifier: a measurement of the k-th alert.
sample_row(id, k) ==
  [ant_mjd |-> (IF id = "ZTFa" THEN 10 ELSE 20) + k,
   ant_survey |-> IF k % 2 = 1 THEN 1 ELSE 2,
   ant_passband |-> IF k % 2 = 1 THEN (IF id = "ZTFa" THEN "g" ELSE "r") ELSE "R",
   ant_mag |-> IF k % 2 = 1 THEN 18 + k ELSE NaN,
   ant_magerr |-> IF k % 2 = 1 THEN 1 ELSE NaN,
   ant_maglim |-> 20 + k]

NoLocus ==
  [found |-> FALSE, properties |-> [k \in {} |-> None], ra |-> 0, dec |-> 0,
   lightcurve |-> [columns |-> {}, rows |-> <<>>]]

good_locus(id, n) ==
  [found |-> TRUE,
   properties |-> [ztf_object_id |-> id, survey |-> "ztf", num_alerts |-> "n"],
   ra |-> 1, dec |-> 2,
   lightcurve |-> [columns |-> LcColumns \cup {"alert_id"},
                   rows |-> [k \in 1..n |-> sample_row(id, k)]]]

malformed_locus(id) ==
  [found |-> TRUE,
   properties |-> [ztf_object_id |-> id, survey |-> "ztf", num_alerts |-> "n"],
   ra |-> 1, dec |-> 2,
   lightcurve |-> [columns |-> LcColumns \ {"ant_maglim"}, rows |-> <<>>]]

\* The records the service can hold for an identifier: none, one missing a required
\* column, one with no measurement, or one with MaxRows measurements.
Catalog(id) ==
  {NoLocus, malformed_locus(id), good_locus(id, 0), good_locus(id, MaxRows)}

Batches == UNION {[1..n -> Ids] : n \in 0..MaxBatch}

\* get_by_ztf_object_id: the service's record (None when there is no match), or a
\* transport error.
get_by_ztf_object_id(service, id, transport_fails) ==
  IF transport_fails THEN Raise("ConnectionError") ELSE Return(service[id])

\* The worker's task body: query_ztf_lightcurve(ztf_object_id).
task_body(service, id, transport_fails) ==
  LET got == get_by_ztf_object_id(service, id, transport_fails)
  IN IF ~ got.ok THEN got ELSE query_ztf_lightcurve(got.value)

\* A pool that starts every queued task at once.
has_idle_worker_unbounded(f, workers) == TRUE

\* ThreadPoolExecutor(max_workers): a queued task starts only while fewer than
\* max_workers tasks are running.
has_idle_worker(f, workers) ==
  Cardinality({i \in DOMAIN f : f[i].state = "running"}) < workers

\* A loop that stops after the first future.
as_completed_exhausted_early(f) == \E i \in DOMAIN f : f[i].yielded

\* The `for future in as_completed(future_to_id)` loop ends when every future was yielded.
as_completed_exhausted(f) == \A i \in DOMAIN f : f[i].yielded

\* A loop body in which a failed future discards what was collected.
on_result_reset(acc, result) ==
  IF result.ok
  THEN [lightcurves |-> Append(acc.lightcurves, result.value.lightcurve),
        metas |-> Append(acc.metas, result.value.meta)]
  ELSE [lightcurves |-> <<>>, metas |-> <<>>]

\* The loop body: append the pair of a successful future, skip a failed one.
on_result(acc, result) ==
  IF result.ok
  THEN [lightcurves |-> Append(acc.lightcurves, result.value.lightcurve),
        metas |-> Append(acc.metas, result.value.meta)]
  ELSE acc

\* executor.submit(query_ztf_lightcurve, ztf_object_id) for the next identifier.
Submit ==
  /\ pc = "pool"
  /\ submitted < Len(ztf_object_ids)
  /\ submitted' = submitted + 1
  /\ fut' = Append(fut, [id |-> ztf_object_ids[submitted + 1], state |-> "queued",
                         runs |-> 0, result |-> Raise(None), yielded |-> FALSE])
  /\ UNCHANGED <<ztf_object_ids, save_path, save_by_layer, max_workers, remote, pc,
                 lightcurves, metas, nested_df, parquet, exc>>
  /\ UNCHANGED <<fvars, pvars>>

\* A pool thread takes the oldest queued work item.
WorkerStart ==
  /\ \E i \in DOMAIN fut :
       /\ fut[i].state = "queued"
       /\ \A j \in 1..(i - 1) : fut[j].state # "queued"
       /\ has_idle_worker(fut, max_workers)
       /\ fut' = [fut EXCEPT ![i].state = "running", ![i].runs = @ + 1]
  /\ UNCHANGED <<ztf_object_ids, save_path, save_by_layer, max_workers, remote, pc,
                 submitted, lightcurves, metas, nested_df, parquet, exc>>
  /\ UNCHANGED <<fvars, pvars>>

\* A running task returns or raises; the future keeps the outcome.
WorkerFinish ==
  /\ \E i \in DOMAIN fut, transport_fails \in BOOLEAN :
       /\ fut[i].state = "running"
       /\ fut' = [fut EXCEPT ![i].state = "finished",
                             ![i].result = task_body(remote, fut[i].id, transport_fails)]
  /\ UNCHANGED <<ztf_object_ids, save_path, save_by_layer, max_workers, remote, pc,
                 submitted, lightcurves, metas, nested_df, parquet, exc>>
  /\ UNCHANGED <<fvars, pvars>>

\* as_completed yields a finished future; the loop body collects its result.
Collect ==
  /\ pc = "pool"
  /\ submitted = Len(ztf_object_ids)
  /\ \E i \in DOMAIN fut :
       /\ fut[i].state = "finished"
       /\ ~ fut[i].yielded
       /\ LET acc == on_result([lightcurves |-> lightcurves, metas |-> metas],
                               fut[i].result)
          IN /\ lightcurves' = acc.lightcurves
             /\ metas' = acc.metas
       /\ fut' = [fut EXCEPT ![i].yielded = TRUE]
  /\ UNCHANGED <<ztf_object_ids, save_path, save_by_layer, max_workers, remote, pc,
                 submitted, nested_df, parquet, exc>>
  /\ UNCHANGED <<fvars, pvars>>

\* After the loop: leave the pool, concatenate, nest, reset the index, save, return.
Assemble ==
  /\ pc = "pool"
  /\ submitted = Len(ztf_object_ids)
  /\ as_completed_exhausted(fut)
  /\ LET lcs == pd_concat(lightcurves)
         ms == pd_concat(metas)
     IN IF ~ lcs.ok
        THEN /\ pc' = "raised"
             /\ exc' = lcs.exc
             /\ UNCHANGED <<lightcurves, metas, nested_df, parquet>>
        ELSE IF ~ ms.ok
        THEN /\ pc' = "raised"
             /\ exc' = ms.exc
             /\ lightcurves' = lcs.value
             /\ UNCHANGED <<metas, nested_df, parquet>>
        ELSE /\ lightcurves' = lcs.value
             /\ metas' = ms.value
             /\ nested_df' = reset_index_drop(lcs_to_nested_df(lcs.value, ms.value))
             /\ parquet' = IF save_path # None
                           THEN Append(parquet, [path |-> save_path,
                                                 by_layer |-> save_by_layer,
                                                 dataset |-> nested_df'])
                           ELSE parquet
             /\ pc' = "done"
             /\ exc' = exc
  /\ UNCHANGED <<ztf_object_ids, save_path, save_by_layer, max_workers, remote,
                 submitted, fut>>
  /\ UNCHANGED <<fvars, pvars>>

QNext == Submit \/ WorkerStart \/ WorkerFinish \/ Collect \/ Assemble

\* ------------------------------------------------------------- one record
Passbands == {"g", "G", "r", "R", "i", "I", "z"}

\* The measurements a record's lightcurve can hold: every passband on a plain detection,
\* and every combination of survey tag, magnitude and detection limit in one passband.
Measurements ==
  [ant_mjd : {10}, ant_survey : {1}, ant_passband : Passbands,
   ant_mag : {18}, ant_magerr : {1}, ant_maglim : {20}]
    \cup [ant_mjd : {10}, ant_survey : {1, 2}, ant_passband : {"g"},
          ant_mag : {NaN, 18}, ant_magerr : {1}, ant_maglim : {NaN, 20}]

\* The property mappings a record can have: with and without the identifier, with and
\* without optional properties.
PropertyMaps ==
  {[ztf_object_id |-> "ZTFa", survey |-> "ztf"], [ztf_object_id |-> "ZTFb"],
   [survey |-> "ztf"]}

Loci ==
  {NoLocus}
    \cup {[found |-> TRUE, properties |-> p, ra |-> 1, dec |-> 2,
           lightcurve |-> [columns |-> LcColumns \ {"ant_mag"}, rows |-> <<>>]] :
            p \in PropertyMaps}
    \cup {[found |-> TRUE, properties |-> p, ra |-> 1, dec |-> 2,
           lightcurve |-> [columns |-> LcColumns \cup {"alert_id"}, rows |-> rows]] :
            p \in PropertyMaps,
            rows \in UNION {[1..n -> Measurements] : n \in 0..MaxLcLen}}

FormatLc ==
  /\ "lc" \notin formatted
  /\ lc_out' = format_antares_lc(locus)
  /\ formatted' = formatted \cup {"lc"}
  /\ UNCHANGED <<locus, meta_out>>
  /\ UNCHANGED <<qvars, pvars>>

FormatMeta ==
  /\ "meta" \notin formatted
  /\ meta_out' = format_antares_meta(locus)
  /\ formatted' = formatted \cup {"meta"}
  /\ UNCHANGED <<locus, lc_out>>
  /\ UNCHANGED <<qvars, pvars>>

FNext == FormatLc \/ FormatMeta

\* ------------------------------------------------------------- plot_light_curve
Times == {5, 10, 12, 15}

PlotRows ==
  [mjd : Times, non_detection : BOOLEAN, band : {"ztfg"}, magnitude : {18},
   magnitude_error : {1}]

\* Rows of a frame in which a time may be missing.
MissingTimeRows ==
  [mjd : {NaN, 10, 12}, non_detection : BOOLEAN, band : {"ztfg"}, magnitude : {18},
   magnitude_error : {1}]

\* Series.min() (skipna=True): the least of the values that are not missing, NaN when
\* the series is empty or holds only missing values.
series_min(values) ==
  LET present == {values[i] : i \in DOMAIN values} \ {NaN}
  IN IF present = {} THEN NaN
     ELSE CHOOSE m \in present : \A v \in present : m <= v

\* Float subtraction: NaN is absorbing.
float_sub(a, b) == IF a = NaN \/ b = NaN THEN NaN ELSE a - b

column_mjd(df) == [i \in DOMAIN df |-> df[i].mjd]

\* The origin taken over every row, non-detections included.
time_origin_all_rows(df) == series_min(column_mjd(df))

\* lightcurve[lightcurve["non_detection"] == False]["mjd"].min()
time_origin(df) ==
  series_min(column_mjd(SelectSeq(df, LAMBDA r : r.non_detection = FALSE)))

\* lightcurve["mjd"] = lightcurve["mjd"] - origin, unless time_axis is "mjd".
shift_time_axis(df, axis) ==
  IF axis # "mjd"
  THEN [i \in DOMAIN df |-> [df[i] EXCEPT !.mjd = float_sub(@, time_origin(df))]]
  ELSE df

\* Python truth value of a save_path argument: None and the empty string are false.
truthy(path) == path # None /\ path # ""

RECURSIVE unique(_)
\* Series.unique(): the distinct values in order of first appearance.
unique(values) ==
  IF values = <<>> THEN <<>>
  ELSE LET init == unique(SubSeq(values, 1, Len(values) - 1))
           last == values[Len(values)]
       IN IF \E i \in DOMAIN init : init[i] = last THEN init ELSE Append(init, last)

\* The errorbar and scatter artists of one band.
draw_band(df, band) ==
  LET band_data == SelectSeq(df, LAMBDA r : r.band = band)
  IN [band |-> band,
      errorbar |-> SelectSeq(band_data, LAMBDA r : r.non_detection = FALSE),
      scatter |-> SelectSeq(band_data, LAMBDA r : r.non_detection = TRUE)]

PlotLightCurve ==
  /\ ret = "pending"
  /\ lightcurve' = shift_time_axis(lightcurve, time_axis)
  /\ LET bands == unique([i \in DOMAIN lightcurve' |-> lightcurve'[i].band])
     IN drawn' = [k \in DOMAIN bands |-> draw_band(lightcurve', bands[k])]
  /\ IF truthy(plot_save_path)
     THEN png' = <<plot_save_path, ztf_id, ".png">> /\ ret' = "none"
     ELSE png' = png /\ ret' = "ax"
  /\ UNCHANGED <<original, time_axis, ztf_id, plot_save_path>>
  /\ UNCHANGED <<qvars, fvars>>

PNext == PlotLightCurve

\* ------------------------------------------------------------- specifications
\* A query_ztf_lightcurves call: the arguments, the service's records, nothing submitted.
\* The record normaliser and the plot are not running.
Init ==
  /\ ztf_object_ids \in Batches
  /\ \E p \in {<<None, TRUE>>, <<"out.parquet", FALSE>>} :
       save_path = p[1] /\ save_by_layer = p[2]
  /\ max_workers \in 1..MaxWorkers
  /\ remote \in {r \in [Ids -> UNION {Catalog(id) : id \in Ids}] :
                   \A id \in Ids :
                     IF \E i \in DOMAIN ztf_object_ids : ztf_object_ids[i] = id
                     THEN r[id] \in Catalog(id)
                     ELSE r[id] = NoLocus}
  /\ pc = "pool"
  /\ submitted = 0
  /\ fut = <<>>
  /\ lightcurves = <<>>
  /\ metas = <<>>
  /\ nested_df = <<>>
  /\ parquet = <<>>
  /\ exc = None
  /\ locus = NoLocus /\ lc_out = Raise(None) /\ meta_out = Raise(None)
  /\ formatted = {"lc", "meta"}
  /\ lightcurve = <<>> /\ original = <<>> /\ time_axis = "mjd" /\ ztf_id = "ZTFa"
  /\ plot_save_path = None /\ drawn = <<>> /\ png = <<>> /\ ret = "idle"

Spec == Init /\ [][QNext]_vars

\* The normalisation of one record; no batch call and no plot are running.
InitFormat ==
  /\ locus \in Loci
  /\ lc_out = Raise(None)
  /\ meta_out = Raise(None)
  /\ formatted = {}
  /\ ztf_object_ids = <<>> /\ save_path = None /\ save_by_layer = TRUE
  /\ max_workers = 1 /\ remote = [id \in Ids |-> NoLocus] /\ pc = "idle"
  /\ submitted = 0 /\ fut = <<>> /\ lightcurves = <<>> /\ metas = <<>>
  /\ nested_df = <<>> /\ parquet = <<>> /\ exc = None
  /\ lightcurve = <<>> /\ original = <<>> /\ time_axis = "mjd" /\ ztf_id = "ZTFa"
  /\ plot_save_path = None /\ drawn = <<>> /\ png = <<>> /\ ret = "idle"

SpecFormat == InitFormat /\ [][FNext]_vars

\* A plot_light_curve call; no batch call and no normalisation are running.
InitPlot ==
  /\ \E n \in 0..MaxPlotRows :
       \/ lightcurve \in [1..n -> PlotRows]
       \/ n < MaxPlotRows /\ lightcurve \in [1..n -> MissingTimeRows]
  /\ original = lightcurve
  /\ time_axis \in {"mjd", "relative"}
  /\ ztf_id = "ZTFa"
  /\ plot_save_path \in {None, "", "plots/"}
  /\ drawn = <<>>
  /\ png = <<>>
  /\ ret = "pending"
  /\ ztf_object_ids = <<>> /\ save_path = None /\ save_by_layer = TRUE
  /\ max_workers = 1 /\ remote = [id \in Ids |-> NoLocus] /\ pc = "idle"
  /\ submitted = 0 /\ fut = <<>> /\ lightcurves = <<>> /\ metas = <<>>
  /\ nested_df = <<>> /\ parquet = <<>> /\ exc = None
  /\ locus = NoLocus /\ lc_out = Raise(None) /\ meta_out = Raise(None)
  /\ formatted = {"lc", "meta"}

SpecPlot == InitPlot /\ [][PNext]_vars

\* ------------------------------------------------------------- properties of the batch query
\* Two sequences with the same elements, each the same number of times.
SameBag(s, t) ==
  /\ Len(s) = Len(t)
  /\ \A i \in DOMAIN s :
       Cardinality({j \in DOMAIN s : s[j] = s[i]}) = Cardinality({j \in DOMAIN t : t[j] = s[i]})

Returned == pc = "done"
Failed == pc = "raised"
\* The tasks whose future holds a result pair / an exception.
Succeeded == {i \in DOMAIN fut : fut[i].state = "finished" /\ fut[i].result.ok}
Broken == {i \in DOMAIN fut : fut[i].state = "finished" /\ ~ fut[i].result.ok}
\* The identifier a top-level row of the dataset carries.
TopId(row) == row.cols["ztf_object_id"]
TopRowsOf(id) == {k \in DOMAIN nested_df : TopId(nested_df[k]) = id}

\* C1 (failure isolation): when the call has ended and N-K > 0 of its N tasks succeeded
\* (K failed, for whatever reason), it returned without an exception, the dataset has
\* exactly N-K top-level rows, and each identifier owns as many rows as it has
\* successful tasks, so no row comes from a failed task.
C1_FailureIsolation ==
  ((Returned \/ Failed) /\ Succeeded # {}) =>
     /\ Returned
     /\ exc = None
     /\ Len(nested_df) = Len(ztf_object_ids) - Cardinality(Broken)
     /\ \A id \in Ids :
          Cardinality(TopRowsOf(id)) = Cardinality({i \in Succeeded : fut[i].id = id})

C1_Witness ==
  /\ Returned
  /\ Len(ztf_object_ids) >= 3
  /\ Cardinality(Broken) >= 1
  /\ Cardinality(Succeeded) >= 2
  /\ Len(nested_df) = Cardinality(Succeeded)
  /\ \E i \in Broken : fut[i].result.exc = "ConnectionError"

\* C2 (empty batch): when the call has ended and no task succeeded (every task failed,
\* or the batch was empty) the call raised, from pd.concat of an empty list, and neither
\* returned nor wrote a dataset.
C2_EmptyBatchFails ==
  ((Returned \/ Failed) /\ Succeeded = {}) =>
     /\ Failed
     /\ exc = "ValueError"
     /\ nested_df = <<>>
     /\ parquet = <<>>

C2_Witness ==
  /\ Failed
  /\ Len(ztf_object_ids) >= 2
  /\ Cardinality(Broken) = Len(ztf_object_ids)
  /\ \E i, j \in Broken : fut[i].result.exc # fut[j].result.exc

\* The pairs of the successful tasks in submission order, whatever order they completed in.
RECURSIVE InSubmissionOrder(_)
InSubmissionOrder(n) ==
  IF n = 0 THEN [lightcurves |-> <<>>, metas |-> <<>>]
  ELSE on_result(InSubmissionOrder(n - 1), fut[n].result)

\* The dataset the same outcomes give when the futures complete in submission order.
SubmissionOrderDataset ==
  LET acc == InSubmissionOrder(Len(fut))
  IN reset_index_drop(lcs_to_nested_df(Flatten(acc.lightcurves), Flatten(acc.metas)))

\* C3 (completion-order independence): the returned dataset has the same top-level rows,
\* each with the same lightcurve sub-table, as the dataset assembled from the same
\* outcomes in submission order; only the position of the rows may differ.
C3_OrderIndependent ==
  Returned => SameBag(nested_df, SubmissionOrderDataset)

C3_Witness ==
  /\ Returned
  /\ Len(nested_df) >= 2
  /\ nested_df # SubmissionOrderDataset
  /\ \A k \in DOMAIN nested_df : nested_df[k].lightcurve # <<>>

\* C4 (nested consistency), as claimed: the identifiers of the top-level rows are exactly
\* the identifiers on the merged lightcurve rows.
C4_NestedConsistency ==
  Returned =>
    {TopId(nested_df[k]) : k \in DOMAIN nested_df}
      = {lightcurves[j].index : j \in DOMAIN lightcurves}

\* C5 (bounded concurrency): every identifier occurrence submitted so far has its own
\* task, a task runs at most once, at most max_workers tasks are running, and when the
\* call ends every occurrence of the batch has run exactly once.
C5_BoundedConcurrency ==
  /\ Cardinality({i \in DOMAIN fut : fut[i].state = "running"}) <= max_workers
  /\ Len(fut) = submitted
  /\ submitted <= Len(ztf_object_ids)
  /\ \A i \in DOMAIN fut :
       /\ fut[i].id = ztf_object_ids[i]
       /\ fut[i].runs = (IF fut[i].state = "queued" THEN 0 ELSE 1)
  /\ (Returned \/ Failed) =>
       /\ Len(fut) = Len(ztf_object_ids)
       /\ \A i \in DOMAIN fut : fut[i].runs = 1 /\ fut[i].state = "finished"

C5_Witness ==
  /\ max_workers >= 2
  /\ Cardinality({i \in DOMAIN fut : fut[i].state = "running"}) = max_workers
  /\ \E i \in DOMAIN fut : fut[i].state = "queued"

\* The lightcurve rows of a successful task, as sub-table rows.
NestedRowsOf(i) ==
  [j \in DOMAIN fut[i].result.value.lightcurve |->
     nested_row(fut[i].result.value.lightcurve[j])]

\* C6 (identifier propagation): every lightcurve row and the metadata row of a successful
\* task carry the identifier property of the record the service returned; in the
\* returned dataset every top-level row carries the identifier of a successful task, its
\* sub-table holds only rows of records with that identifier, and the merged lightcurve
\* rows carry exactly the labels of the successful tasks' rows.
C6_IdentifierPropagation ==
  /\ \A i \in Succeeded :
       LET id == remote[fut[i].id].properties["ztf_object_id"]
           pair == fut[i].result.value
       IN /\ \A j \in DOMAIN pair.lightcurve : pair.lightcurve[j].index = id
          /\ Len(pair.meta) = 1
          /\ pair.meta[1].index = id
          /\ pair.meta[1].cols["ztf_object_id"] = id
  /\ Returned =>
       /\ \A k \in DOMAIN nested_df :
            /\ \E i \in Succeeded :
                 remote[fut[i].id].properties["ztf_object_id"] = TopId(nested_df[k])
            /\ \A j \in DOMAIN nested_df[k].lightcurve :
                 \E i \in Succeeded :
                   /\ remote[fut[i].id].properties["ztf_object_id"] = TopId(nested_df[k])
                   /\ \E m \in DOMAIN NestedRowsOf(i) :
                        NestedRowsOf(i)[m] = nested_df[k].lightcurve[j]
       /\ \A id \in Ids :
            Cardinality({j \in DOMAIN lightcurves : lightcurves[j].index = id})
              = Cardinality({p \in {<<i, m>> \in Succeeded \X (1..MaxRows) :
                                      m <= Len(fut[i].result.value.lightcurve)} :
                               remote[fut[p[1]].id].properties["ztf_object_id"] = id})

C6_Witness ==
  /\ Returned
  /\ Len(nested_df) >= 2
  /\ \E k, l \in DOMAIN nested_df :
       /\ TopId(nested_df[k]) # TopId(nested_df[l])
       /\ Len(nested_df[k].lightcurve) >= 2
       /\ Len(nested_df[l].lightcurve) >= 1

\* C10 (no partial writes): the dataset is written at most once, only with a save path,
\* only once every task of the batch has finished and been collected and the merged
\* dataset exists, and what is written is the returned dataset; a call that raised
\* wrote nothing.
C10_NoPartialWrites ==
  /\ Len(parquet) <= 1
  /\ parquet # <<>> =>
       /\ save_path # None
       /\ Returned
       /\ Len(fut) = Len(ztf_object_ids)
       /\ \A i \in DOMAIN fut : fut[i].state = "finished" /\ fut[i].yielded
       /\ parquet[1].path = save_path
       /\ parquet[1].dataset = nested_df
       /\ Len(nested_df) = Cardinality(Succeeded)
  /\ Failed => parquet = <<>>
  /\ (Returned /\ save_path = None) => parquet = <<>>

C10_Witness ==
  /\ Returned
  /\ Len(parquet) = 1
  /\ Cardinality(Broken) >= 1
  /\ Len(parquet[1].dataset) >= 2

\* ------------------------------------------------------------- properties of the normaliser
LcFormatted == "lc" \in formatted /\ lc_out.ok
RawRows == locus.lightcurve.rows

\* C7 (magnitude fallback): the lightcurve table has one row per measurement; its
\* magnitude is the raw magnitude when that is present and the raw detection-limit
\* magnitude when the raw magnitude is missing; no row keeps a detection-limit column.
C7_MagnitudeFallback ==
  LcFormatted =>
    /\ Len(lc_out.value) = Len(RawRows)
    /\ \A j \in DOMAIN lc_out.value :
         /\ RawRows[j].ant_mag # NaN => lc_out.value[j].magnitude = RawRows[j].ant_mag
         /\ RawRows[j].ant_mag = NaN => lc_out.value[j].magnitude = RawRows[j].ant_maglim
         /\ DOMAIN lc_out.value[j]
              = {"index", "mjd", "non_detection", "band", "magnitude", "magnitude_error"}

C7_Witness ==
  /\ LcFormatted
  /\ Len(RawRows) = 2
  /\ RawRows[1].ant_mag = NaN /\ RawRows[1].ant_maglim = 20
  /\ RawRows[2].ant_mag = 18 /\ RawRows[2].ant_maglim = 20
  /\ lc_out.value[1].magnitude = 20
  /\ lc_out.value[2].magnitude = 18

\* C8 (band normalisation): g and G become ztfg, r and R become ztfr, i and I become
\* ztfi, any other band code is kept as it is; so a record whose bands are all among
\* g, G, r, R, i, I has output bands within {ztfg, ztfr, ztfi}.
C8_BandNormalisation ==
  LcFormatted =>
    /\ \A j \in DOMAIN lc_out.value :
         LET raw == RawRows[j].ant_passband
             out == lc_out.value[j].band
         IN /\ raw \in {"g", "G"} => out = "ztfg"
            /\ raw \in {"r", "R"} => out = "ztfr"
            /\ raw \in {"i", "I"} => out = "ztfi"
            /\ raw \notin {"g", "G", "r", "R", "i", "I"} => out = raw
    /\ (\A j \in DOMAIN RawRows : RawRows[j].ant_passband \in {"g", "G", "r", "R", "i", "I"})
         => {lc_out.value[j].band : j \in DOMAIN lc_out.value} \subseteq {"ztfg", "ztfr", "ztfi"}

C8_Witness ==
  /\ LcFormatted
  /\ Len(RawRows) = 2
  /\ RawRows[1].ant_passband = "G" /\ lc_out.value[1].band = "ztfg"
  /\ RawRows[2].ant_passband = "z" /\ lc_out.value[2].band = "z"

\* ------------------------------------------------------------- properties of the plot
Plotted == ret \in {"ax", "none"}
\* The detections of the frame as passed whose time is not missing.
Detections ==
  {j \in DOMAIN original : original[j].non_detection = FALSE /\ original[j].mjd # NaN}

\* C9 (relative time axis): after a call in relative mode on a frame with a detection,
\* every row's time, of detections and non-detections alike, is its time as passed
\* minus the least time among the detections (a missing time stays missing), so the
\* earliest detection is at 0; after a call with time_axis "mjd" every time is as
\* passed.  Detections at 10, 12, 15 and a non-detection at 5 give 0, 2, 5 and -5.
C9_RelativeTimeAxis ==
  Plotted =>
    /\ Len(lightcurve) = Len(original)
    /\ time_axis = "mjd" => \A j \in DOMAIN original : lightcurve[j].mjd = original[j].mjd
    /\ (time_axis # "mjd" /\ Detections # {}) =>
         \E d \in Detections :
           /\ \A e \in Detections : original[d].mjd <= original[e].mjd
           /\ lightcurve[d].mjd = 0
           /\ \A j \in DOMAIN original :
                lightcurve[j].mjd = IF original[j].mjd = NaN THEN NaN
                                    ELSE original[j].mjd - original[d].mjd
    /\ (time_axis # "mjd"
        /\ [j \in DOMAIN original |-> <<original[j].mjd, original[j].non_detection>>]
             = <<<<10, FALSE>>, <<12, FALSE>>, <<15, FALSE>>, <<5, TRUE>>>>) =>
         [j \in DOMAIN lightcurve |-> lightcurve[j].mjd] = <<0, 2, 5, -5>>

C9_Witness ==
  /\ Plotted
  /\ time_axis = "relative"
  /\ [j \in DOMAIN original |-> <<original[j].mjd, original[j].non_detection>>]
       = <<<<10, FALSE>>, <<12, FALSE>>, <<15, FALSE>>, <<5, TRUE>>>>
  /\ [j \in DOMAIN lightcurve |-> lightcurve[j].mjd] = <<0, 2, 5, -5>>

====
